---- MODULE Spec2Model ----
(***************************************************************************)
(* Multi-level page table with aging page replacement.                     *)
(*                                                                         *)
(* The model follows src/pagetable.cpp (the level trie and its bit-slice   *)
(* metadata), src/unnamed/part_000 (the replacement state and the fault    *)
(* handler; the README calls it replacement.cpp) and the address loop of   *)
(* src/main.cpp.                                                           *)
(*                                                                         *)
(* TLC integers are 32-bit signed, so a C++ `unsigned int` that can hold a *)
(* value of 2^31 or more (addresses, masks, UINT_MAX, the clock and the    *)
(* statistics, option values) is the pair of its 16-bit halves             *)
(* <<high, low>>, with the operators computed modulo 2^32.  Small unsigned *)
(* values (indices, widths, frame numbers) are integers.                   *)
(***************************************************************************)
EXTENDS Integers, Sequences, FiniteSets, TLC

VARIABLES
    pc,        \* position of the driver: "args", "run", "done", "undefined", ...
    cfg,       \* levelBitsArray handed to createPageTable
    pt,        \* the PageTable struct
    heap,      \* the Level nodes reachable from pt.rootLevel, by node id
    rs,        \* the ReplacementState
    stats,     \* the Stats of main
    ev,        \* what the last loop iteration of main computed
    summary,   \* what main hands to log_summary at the end of the trace
    trace,     \* history: the full VPN of every processed address, in order
    snaps,     \* history: rs.loaded after each processed address
    decays,    \* history: the positions in trace at which performAgingUpdate ran
    lastIns,   \* history: the last frame inserted for each page (page table only)
    victim,    \* the result of the last chooseVictimIndex call (victim scan only)
    args       \* the command line as atoi reads it, and the locals main parses it into

vars == <<pc, cfg, pt, heap, rs, stats, ev, summary, trace, snaps, decays, lastIns, victim, args>>

(***************************************************************************)
(* Bounds of the model.                                                    *)
(***************************************************************************)
MaxAddrs == 4       \* addresses read from the trace
MaxFrames == 2      \* largest bounded -f budget
MaxInterval == 3    \* largest -b aging interval below the default
MaxLevels == 3      \* levels of a configuration handed to createPageTable alone
MaxRecs == 3        \* resident records handed to the victim scan alone
MaxPTFrame == 1     \* largest frame number inserted into the page table alone
MaxLead == 2        \* most addresses left before the clock wraps, in a long run

(***************************************************************************)
(* unsigned int: 32-bit vectors.                                           *)
(***************************************************************************)
WordBits == 32
BitIdx == 0..(WordBits - 1)       \* bit positions, 0 = least significant
Half == 2 ^ 16

\* the unsigned int 0xHHHHLLLL, as its two 16-bit halves
Hex(hi, lo) == <<hi, lo>>

\* bit b of w
Bit(w, b) == IF b >= 16 THEN (w[1] \div (2 ^ (b - 16))) % 2 ELSE (w[2] \div (2 ^ b)) % 2

Zero == Hex(0, 0)
One == Hex(0, 1)
AllOnes == Hex(Half - 1, Half - 1)

\* a << n for 0 <= n < 32, modulo 2^32 (a shift by 32 or more is undefined in C++)
Shl(w, n) ==
    IF n >= 16
    THEN Hex((w[2] * (2 ^ (n - 16))) % Half, 0)
    ELSE Hex((((w[1] * (2 ^ n)) % Half) + ((w[2] * (2 ^ n)) \div Half)) % Half,
             (w[2] * (2 ^ n)) % Half)

\* a >> n for 0 <= n < 32
Shr(w, n) ==
    IF n >= 16
    THEN Hex(0, w[1] \div (2 ^ (n - 16)))
    ELSE Hex(w[1] \div (2 ^ n), (w[2] \div (2 ^ n)) + ((w[1] % (2 ^ n)) * (2 ^ (16 - n))))

\* a & b and a | b on 16-bit halves, bit by bit from bit i down
RECURSIVE And16(_, _, _)
And16(a, b, i) ==
    IF i < 0 THEN 0
    ELSE ((a \div (2 ^ i)) % 2) * ((b \div (2 ^ i)) % 2) * (2 ^ i) + And16(a, b, i - 1)

RECURSIVE Or16(_, _, _)
Or16(a, b, i) ==
    IF i < 0 THEN 0
    ELSE (IF ((a \div (2 ^ i)) % 2) + ((b \div (2 ^ i)) % 2) > 0 THEN 2 ^ i ELSE 0)
         + Or16(a, b, i - 1)

And(a, b) == Hex(And16(a[1], b[1], 15), And16(a[2], b[2], 15))
Or(a, b) == Hex(Or16(a[1], b[1], 15), Or16(a[2], b[2], 15))

\* w - 1u, wrapping
Sub1(w) ==
    IF w[2] > 0 THEN Hex(w[1], w[2] - 1)
    ELSE IF w[1] > 0 THEN Hex(w[1] - 1, Half - 1)
    ELSE AllOnes

\* a < b on unsigned int
WordLess(a, b) == a[1] < b[1] \/ (a[1] = b[1] /\ a[2] < b[2])

\* the unsigned int holding the integer n (0 <= n < 2^31)
FromNat(n) == Hex(n \div Half, n % Half)

\* w mod n for a small n >= 1
WordMod(w, n) == (((w[1] % n) * (Half % n)) + w[2]) % n

\* the integer an unsigned int below 2^31 holds
ToNat(w) == (w[1] * Half) + w[2]

\* a + b on unsigned int
Add(a, b) == Hex((a[1] + b[1] + ((a[2] + b[2]) \div Half)) % Half, (a[2] + b[2]) % Half)

RECURSIVE SumSeq(_)
SumSeq(s) == IF s = <<>> THEN 0 ELSE Head(s) + SumSeq(Tail(s))

(***************************************************************************)
(* pagetable.cpp: construction.                                            *)
(***************************************************************************)
EmptyFn == [x \in {} |-> 0]
NullArray == [alloc |-> FALSE, slot |-> EmptyFn]
InvalidMap == [frameNumber |-> -1, valid |-> FALSE]

RootId == <<>>

allocateLevel(depth, entryCount) ==
    [depth |-> depth, entryCount |-> entryCount,
     nextLevelArray |-> NullArray, mapArray |-> NullArray]

\* offsetMask of createPageTable
OffsetMaskOf(offsetBits) ==
    IF offsetBits = 32 THEN AllOnes ELSE Sub1(Shl(One, offsetBits))

\* shift of level i (1-based) in the loop of createPageTable
LevelShiftOf(levelBits, i) == 32 - (SumSeq(SubSeq(levelBits, 1, i - 1)) + levelBits[i])

\* mutant of LevelMaskOf: the mask is not shifted into place
LevelMaskUnshifted(bits, shift) ==
    IF bits = 32 THEN AllOnes ELSE Sub1(Shl(One, bits))

\* mask of a level of `bits` bits at `shift`
LevelMaskOf(bits, shift) ==
    IF bits = 32 THEN AllOnes ELSE Shl(Sub1(Shl(One, bits)), shift)

\* 1u << levelBits[0]: a shift by 32 is undefined; the builds give 0 or 1
RootEntriesOutcomes(bits) ==
    IF bits >= 32 THEN {Zero, One} ELSE {Shl(One, bits)}

\* createPageTable; rootEntries is the outcome of 1u << levelBits[0]
createPageTable(levelCount, levelBitsArray, rootEntries) ==
    LET sumBits == SumSeq(levelBitsArray)
        offsetBits == 32 - sumBits
    IN  [p |-> [levelCount |-> levelCount,
                levelBits |-> levelBitsArray,
                levelMask |-> [i \in 1..levelCount |->
                                 LevelMaskOf(levelBitsArray[i],
                                             LevelShiftOf(levelBitsArray, i))],
                levelShift |-> [i \in 1..levelCount |-> LevelShiftOf(levelBitsArray, i)],
                offsetBits |-> offsetBits,
                offsetMask |-> OffsetMaskOf(offsetBits),
                rootLevel |-> RootId],
         h |-> (RootId :> allocateLevel(0, rootEntries))]

NoPageTable ==
    [levelCount |-> 0, levelBits |-> <<>>, levelMask |-> <<>>, levelShift |-> <<>>,
     offsetBits |-> 32, offsetMask |-> AllOnes, rootLevel |-> RootId]

(***************************************************************************)
(* pagetable.cpp: core operations.                                         *)
(***************************************************************************)
extractVPNFromVirtualAddress(virtualAddress, mask, shift) ==
    Shr(And(virtualAddress, mask), shift)

\* the index extractVPNFromVirtualAddress gives at level d (0-based)
IndexAt(p, virtualAddress, d) ==
    ToNat(extractVPNFromVirtualAddress(virtualAddress, p.levelMask[d + 1],
                                       p.levelShift[d + 1]))

NullMapPtr == [found |-> FALSE, frameNumber |-> -1]

\* mapArray[idx] of an allocated array
MapAt(lvl, idx) ==
    IF idx \in DOMAIN lvl.mapArray.slot THEN lvl.mapArray.slot[idx] ELSE InvalidMap

RECURSIVE SearchWalk(_, _, _, _, _)
SearchWalk(p, h, curr, d, virtualAddress) ==
    LET idx == IndexAt(p, virtualAddress, d)
        lvl == h[curr]
    IN  IF d = p.levelCount - 1
        THEN IF ~lvl.mapArray.alloc THEN NullMapPtr
             ELSE LET m == MapAt(lvl, idx)
                  IN  IF ~m.valid \/ m.frameNumber < 0 THEN NullMapPtr
                      ELSE [found |-> TRUE, frameNumber |-> m.frameNumber]
        ELSE IF ~lvl.nextLevelArray.alloc THEN NullMapPtr
             ELSE IF idx \notin DOMAIN lvl.nextLevelArray.slot THEN NullMapPtr
                  ELSE SearchWalk(p, h, lvl.nextLevelArray.slot[idx], d + 1, virtualAddress)

searchMappedPfn(p, h, virtualAddress) ==
    IF p.levelCount = 0 THEN NullMapPtr
    ELSE SearchWalk(p, h, p.rootLevel, 0, virtualAddress)

\* mutant of InsertLeaf: `> 0` for `>= 0`
InsertLeafPositiveOnly(lvl, idx, frameNumber) ==
    [lvl EXCEPT !.mapArray =
        [alloc |-> TRUE,
         slot |-> (idx :> [frameNumber |-> frameNumber, valid |-> (frameNumber > 0)])
                  @@ lvl.mapArray.slot]]

\* the leaf branch of insertMapForVpn2Pfn
InsertLeaf(lvl, idx, frameNumber) ==
    [lvl EXCEPT !.mapArray =
        [alloc |-> TRUE,
         slot |-> (idx :> [frameNumber |-> frameNumber, valid |-> (frameNumber >= 0)])
                  @@ lvl.mapArray.slot]]

RECURSIVE InsertWalk(_, _, _, _, _, _)
InsertWalk(p, h, curr, d, virtualAddress, frameNumber) ==
    LET idx == IndexAt(p, virtualAddress, d)
        lvl == h[curr]
    IN  IF d = p.levelCount - 1
        THEN [h EXCEPT ![curr] = InsertLeaf(lvl, idx, frameNumber)]
        ELSE IF lvl.nextLevelArray.alloc /\ idx \in DOMAIN lvl.nextLevelArray.slot
             THEN InsertWalk(p, h, lvl.nextLevelArray.slot[idx], d + 1,
                             virtualAddress, frameNumber)
             ELSE LET childId == Append(curr, idx)
                      child == allocateLevel(d + 1, Shl(One, p.levelBits[d + 2]))
                      lvl2 == [lvl EXCEPT !.nextLevelArray =
                                  [alloc |-> TRUE,
                                   slot |-> (idx :> childId) @@ lvl.nextLevelArray.slot]]
                      h2 == (childId :> child) @@ [h EXCEPT ![curr] = lvl2]
                  IN  InsertWalk(p, h2, childId, d + 1, virtualAddress, frameNumber)

\* mutant of insertMapForVpn2Pfn: the path of the address with the top bit
\* set is allocated as well
InsertTouchesSibling(p, h, virtualAddress, frameNumber) ==
    InsertWalk(p, InsertWalk(p, h, p.rootLevel, 0, Or(virtualAddress, Hex(32768, 0)), -1),
               p.rootLevel, 0, virtualAddress, frameNumber)

insertMapForVpn2Pfn(p, h, virtualAddress, frameNumber) ==
    InsertWalk(p, h, p.rootLevel, 0, virtualAddress, frameNumber)

\* mutant of SearchEffect: a lookup that fails walks like an insert and
\* allocates what is missing on its path
SearchAllocates(p, h, virtualAddress) ==
    IF searchMappedPfn(p, h, virtualAddress).found THEN h
    ELSE insertMapForVpn2Pfn(p, h, virtualAddress, -1)

\* the trie searchMappedPfn leaves: it reads the nodes and writes none
SearchEffect(p, h, virtualAddress) == h

getFullVPN(p, virtualAddress) ==
    IF p.offsetBits = 32 THEN 0 ELSE ToNat(Shr(virtualAddress, p.offsetBits))

getOffsetFromVA(p, virtualAddress) == And(virtualAddress, p.offsetMask)

\* (unsigned int)n for an int n
IntToWord(n) ==
    IF n >= 0 THEN FromNat(n)
    ELSE LET m == FromNat(-n - 1) IN Hex(Half - 1 - m[1], Half - 1 - m[2])

\* mutant of composePhysicalAddress: the frame is shifted by the level bits
ComposeShiftByLevelBits(p, frameNumber, offset) ==
    Or(Shl(IntToWord(frameNumber), 32 - p.offsetBits), offset)

composePhysicalAddress(p, frameNumber, offset) ==
    Or(Shl(IntToWord(frameNumber), p.offsetBits), offset)

(***************************************************************************)
(* replacement.cpp (src/unnamed/part_000).                                 *)
(***************************************************************************)
initReplacementState(maxFrames, bitInterval) ==
    [maxFrames |-> maxFrames, bitstringInterval |-> bitInterval,
     accessesSinceAging |-> 0, currentTime |-> Zero, nextFreeFrame |-> 0,
     loaded |-> <<>>]

\* 0-based index of the first record holding fullVPN, or -1
findLoadedVPN(r, fullVPN) ==
    LET hits == {i \in 1..Len(r.loaded) : r.loaded[i].fullVPN = fullVPN}
    IN  IF hits = {} THEN -1
        ELSE (CHOOSE i \in hits : \A j \in hits : i <= j) - 1

\* mutant of AgeEntry: the accessed flag is not reset
AgeEntryKeepsFlag(entry) ==
    [entry EXCEPT !.ageBits = IF entry.accessedThisInterval
                              THEN (entry.ageBits \div 2) + 32768
                              ELSE entry.ageBits \div 2]

\* one record of the loop of performAgingUpdate; after the shift bit 15 is 0,
\* so `|= (1u << 15)` adds 32768
AgeEntry(entry) ==
    [entry EXCEPT !.ageBits = IF entry.accessedThisInterval
                              THEN (entry.ageBits \div 2) + 32768
                              ELSE entry.ageBits \div 2,
                  !.accessedThisInterval = FALSE]

performAgingUpdate(r) ==
    [r EXCEPT !.loaded = [i \in 1..Len(r.loaded) |-> AgeEntry(r.loaded[i])]]

\* mutant of AgingDue: `>` for `>=`
AgingDueStrict(r) == WordLess(r.bitstringInterval, FromNat(r.accessesSinceAging + 1))

\* whether this tick reaches the aging interval
AgingDue(r) == ~WordLess(FromNat(r.accessesSinceAging + 1), r.bitstringInterval)

\* mutant of tickReplacementClock: the clock is not advanced
TickWithoutClock(r) ==
    LET r1 == [r EXCEPT !.accessesSinceAging = @ + 1]
    IN  IF AgingDue(r)
        THEN [performAgingUpdate(r1) EXCEPT !.accessesSinceAging = 0]
        ELSE r1

tickReplacementClock(r) ==
    LET r1 == [r EXCEPT !.currentTime = Add(@, One), !.accessesSinceAging = @ + 1]
    IN  IF AgingDue(r)
        THEN [performAgingUpdate(r1) EXCEPT !.accessesSinceAging = 0]
        ELSE r1

\* mutant of noteFrameAccess: the flag is set, the timestamp is left alone
NoteWithoutTime(r, fullVPN, frameNumber) ==
    [r EXCEPT !.loaded = [i \in 1..Len(r.loaded) |->
                             IF r.loaded[i].fullVPN = fullVPN
                                /\ r.loaded[i].frameNumber = frameNumber
                             THEN [r.loaded[i] EXCEPT !.accessedThisInterval = TRUE]
                             ELSE r.loaded[i]]]

\* mutant of noteFrameAccess: every record is noted, not the matching one
NoteEveryRecord(r, fullVPN, frameNumber) ==
    [r EXCEPT !.loaded = [i \in 1..Len(r.loaded) |->
                             [r.loaded[i] EXCEPT !.lastAccessTime = r.currentTime,
                                                 !.accessedThisInterval = TRUE]]]

noteFrameAccess(r, fullVPN, frameNumber) ==
    LET hits == {i \in 1..Len(r.loaded) :
                    r.loaded[i].fullVPN = fullVPN /\ r.loaded[i].frameNumber = frameNumber}
    IN  IF hits = {} THEN r
        ELSE LET i == CHOOSE i \in hits : \A j \in hits : i <= j
             IN  [r EXCEPT !.loaded[i].lastAccessTime = r.currentTime,
                           !.loaded[i].accessedThisInterval = TRUE]

\* mutant of VictimBetter: the tie-break on the last access is missing
VictimBetterAgeOnly(e, bestAge, bestLast) ==
    \/ e.ageBits < bestAge
    \/ e.ageBits = bestAge /\ bestLast = AllOnes

\* mutant of VictimBetter: `<=` for `<` on the last access
VictimBetterOrEqual(e, bestAge, bestLast) ==
    \/ e.ageBits < bestAge
    \/ e.ageBits = bestAge /\ ~WordLess(bestLast, e.lastAccessTime)

\* the test of the scan of chooseVictimIndex: record e beats the best so far
VictimBetter(e, bestAge, bestLast) ==
    \/ e.ageBits < bestAge
    \/ e.ageBits = bestAge /\ WordLess(e.lastAccessTime, bestLast)

RECURSIVE VictimScan(_, _, _, _, _)
VictimScan(loaded, i, bestAge, bestLast, bestIdx) ==
    IF i > Len(loaded) THEN bestIdx
    ELSE IF VictimBetter(loaded[i], bestAge, bestLast)
         THEN VictimScan(loaded, i + 1, loaded[i].ageBits,
                         loaded[i].lastAccessTime, i - 1)
         ELSE VictimScan(loaded, i + 1, bestAge, bestLast, bestIdx)

\* 0-based index of the victim, or -1
chooseVictimIndex(r) ==
    IF r.loaded = <<>> THEN -1
    ELSE VictimScan(r.loaded, 1, 65535, AllOnes, -1)

\* mutant of NewPageInfo: the fullVPN field is never assigned and stays 0
NewPageInfoNoVPN(r, fullVPN, frameNumber) ==
    [fullVPN |-> 0, frameNumber |-> frameNumber, ageBits |-> 32768,
     lastAccessTime |-> r.currentTime, accessedThisInterval |-> TRUE]

\* mutant of NewPageInfo: the age starts empty instead of at 1u << 15
NewPageInfoZeroAge(r, fullVPN, frameNumber) ==
    [fullVPN |-> fullVPN, frameNumber |-> frameNumber, ageBits |-> 0,
     lastAccessTime |-> r.currentTime, accessedThisInterval |-> TRUE]

\* the record a fault writes (fresh, or over the victim)
NewPageInfo(r, fullVPN, frameNumber) ==
    [fullVPN |-> fullVPN, frameNumber |-> frameNumber, ageBits |-> 32768,
     lastAccessTime |-> r.currentTime, accessedThisInterval |-> TRUE]

\* mutant of HasFreeFrame: `<=` for `<`
HasFreeFrameOffByOne(r) == ~WordLess(r.maxFrames, FromNat(Len(r.loaded)))

\* mutant of HasFreeFrame: the comparison made on int, where UINT_MAX is -1
HasFreeFrameSigned(r) ==
    IF r.maxFrames[1] >= 2 ^ 15 THEN FALSE
    ELSE WordLess(FromNat(Len(r.loaded)), r.maxFrames)

\* rs.loaded.size() < rs.maxFrames
HasFreeFrame(r) == WordLess(FromNat(Len(r.loaded)), r.maxFrames)

\* mutant of EvictionReport: the frame number is reported as the evicted VPN
EvictionReportFrame(v) == [evictedVPN |-> v.frameNumber, evictedAgeBits |-> v.ageBits]

\* mutant of EvictionReport: the age is read after the record was reset
EvictionReportResetAge(v) == [evictedVPN |-> v.fullVPN, evictedAgeBits |-> 32768]

\* what ensureResidentPage reports about the victim v, read before v is reset
EvictionReport(v) == [evictedVPN |-> v.fullVPN, evictedAgeBits |-> v.ageBits]

\* mutant of VictimVA: the VPN is taken for the address, without the shift
VictimVAUnshifted(p, evictedVPN) == FromNat(evictedVPN)

\* the victim's address, rebuilt from its VPN: evictedVPN << pt->offsetBits
VictimVA(p, evictedVPN) == Shl(FromNat(evictedVPN), p.offsetBits)

\* mutant of ReuseSlot: the victim's record is left as it was
ReuseSlotSkipped(loaded, victimIdx, info) == loaded

\* mutant of ReuseSlot: the victim's record is erased and the new one appended
ReuseSlotAtBack(loaded, victimIdx, info) ==
    Append(SubSeq(loaded, 1, victimIdx) \o SubSeq(loaded, victimIdx + 2, Len(loaded)), info)

\* the victim's record (0-based victimIdx) overwritten in place
ReuseSlot(loaded, victimIdx, info) == [loaded EXCEPT ![victimIdx + 1] = info]

\* ensureResidentPage: the frame and the out-parameters, with the state it
\* leaves.  ub: rs.loaded[-1] was read (chooseVictimIndex found no record).
ensureResidentPage(p, h, r, virtualAddress, fullVPN) ==
    LET idx == findLoadedVPN(r, fullVPN)
        none == [pfn |-> -1, r |-> r, h |-> h, didFault |-> FALSE, didEvict |-> FALSE,
                 evictedVPN |-> 0, evictedAgeBits |-> 0, ub |-> FALSE]
    IN  IF idx >= 0
        THEN [none EXCEPT !.pfn = r.loaded[idx + 1].frameNumber]
        ELSE IF HasFreeFrame(r)
        THEN LET newPFN == r.nextFreeFrame
             IN  [none EXCEPT
                    !.pfn = newPFN,
                    !.didFault = TRUE,
                    !.h = insertMapForVpn2Pfn(p, h, virtualAddress, newPFN),
                    !.r = [r EXCEPT !.nextFreeFrame = @ + 1,
                                    !.loaded = Append(@, NewPageInfo(r, fullVPN, newPFN))]]
        ELSE LET victimIdx == chooseVictimIndex(r)
             IN  IF victimIdx < 0
                 THEN [none EXCEPT !.didFault = TRUE, !.didEvict = TRUE, !.ub = TRUE]
                 ELSE LET v == r.loaded[victimIdx + 1]
                          reusedPFN == v.frameNumber
                          victimVA == VictimVA(p, EvictionReport(v).evictedVPN)
                          h1 == insertMapForVpn2Pfn(p, h, victimVA, -1)
                      IN  [pfn |-> reusedPFN,
                           r |-> [r EXCEPT !.loaded =
                                    ReuseSlot(@, victimIdx, NewPageInfo(r, fullVPN, reusedPFN))],
                           h |-> insertMapForVpn2Pfn(p, h1, virtualAddress, reusedPFN),
                           didFault |-> TRUE, didEvict |-> TRUE,
                           evictedVPN |-> EvictionReport(v).evictedVPN,
                           evictedAgeBits |-> EvictionReport(v).evictedAgeBits,
                           ub |-> FALSE]

(***************************************************************************)
(* main.cpp: the entry count of the summary.                               *)
(***************************************************************************)
RECURSIVE SumValid(_, _, _, _)
RECURSIVE countValidEntries(_, _, _)

SumValid(p, h, ids, acc) ==
    IF ids = {} THEN acc
    ELSE LET c == CHOOSE c \in ids : TRUE
         IN  SumValid(p, h, ids \ {c}, acc + countValidEntries(p, h, c))

\* mutant of countEntriesRecursiveLocal: a terminal node counts its valid
\* mappings only (what the unused countEntriesRecursive of pagetable.cpp does)
countValidEntries(p, h, lvlId) ==
    LET lvl == h[lvlId]
    IN  IF lvl.depth = p.levelCount - 1
        THEN IF lvl.mapArray.alloc
             THEN Cardinality({i \in DOMAIN lvl.mapArray.slot :
                                 /\ lvl.mapArray.slot[i].valid
                                 /\ lvl.mapArray.slot[i].frameNumber >= 0})
             ELSE 0
        ELSE IF lvl.nextLevelArray.alloc
             THEN SumValid(p, h, {lvl.nextLevelArray.slot[i] : i \in DOMAIN lvl.nextLevelArray.slot},
                           Cardinality(DOMAIN lvl.nextLevelArray.slot))
             ELSE 0

RECURSIVE SumOver(_, _, _, _)
RECURSIVE countEntriesRecursiveLocal(_, _, _)

\* the sum of countEntriesRecursiveLocal over the nodes in ids
SumOver(p, h, ids, acc) ==
    IF ids = {} THEN acc
    ELSE LET c == CHOOSE c \in ids : TRUE
         IN  SumOver(p, h, ids \ {c}, acc + countEntriesRecursiveLocal(p, h, c))

countEntriesRecursiveLocal(p, h, lvlId) ==
    LET lvl == h[lvlId]
    IN  IF lvl.depth = p.levelCount - 1
        THEN IF lvl.mapArray.alloc THEN ToNat(lvl.entryCount) ELSE 0
        ELSE IF lvl.nextLevelArray.alloc
             THEN SumOver(p, h, {lvl.nextLevelArray.slot[i] : i \in DOMAIN lvl.nextLevelArray.slot},
                          Cardinality(DOMAIN lvl.nextLevelArray.slot))
             ELSE 0

(***************************************************************************)
(* main.cpp: the run.                                                      *)
(***************************************************************************)
DefaultInterval == 10

\* the largest sum of level widths main lets through
MaxSumBits == 28

RECURSIVE SumWords(_)
\* sumBits of main: the sum of unsigned ints, modulo 2^32
SumWords(ws) == IF ws = <<>> THEN Zero ELSE Add(Head(ws), SumWords(Tail(ws)))

\* level-bit configurations main accepts (positive widths, sum <= 28)
Configs == {<<4, 8, 8>>, <<8>>, <<1>>}

\* trace addresses: 0x00000000, 0x00001000, 0x01000ABC, 0xF0012345
Addrs == {Hex(0, 0), Hex(0, 4096), Hex(256, 2748), Hex(61441, 9029)}

\* -f: a bounded budget, or the default UINT_MAX
FrameBudgets == {FromNat(n) : n \in 1..MaxFrames} \cup {AllOnes}

\* -b: an interval, or the default
Intervals == (1..MaxInterval) \cup {DefaultInterval}

\* the command line before main has read it
NoArgs ==
    [f |-> <<>>, b |-> <<>>, bits |-> <<>>, maxFrames |-> AllOnes,
     bitInterval |-> FromNat(DefaultInterval), tempBits |-> <<>>, sumBits |-> Zero]

initStats == [addressesProcessed |-> Zero, hits |-> Zero, misses |-> Zero, evictions |-> Zero]

NoEvent ==
    [va |-> Zero, fullVPN |-> 0, hit |-> FALSE, pfn |-> -1, didFault |-> FALSE,
     didEvict |-> FALSE, evictedVPN |-> 0, evictedAgeBits |-> 0, offset |-> Zero,
     pa |-> Zero, ub |-> FALSE, loadedAtLookup |-> <<>>]

NoSummary ==
    [pageSize |-> Zero, evictions |-> Zero, hits |-> Zero, addresses |-> Zero,
     framesAllocated |-> 0, pageTableEntries |-> 0]

\* main, lines 191-208: the page table, the replacement state and the statistics
Init ==
    /\ pc = "run"
    /\ cfg \in Configs
    /\ \E e \in RootEntriesOutcomes(cfg[1]) :
          LET c == createPageTable(Len(cfg), cfg, e)
          IN  pt = c.p /\ heap = c.h
    /\ \E mf \in FrameBudgets, bi \in Intervals : rs = initReplacementState(mf, FromNat(bi))
    /\ stats = initStats
    /\ ev = NoEvent
    /\ summary = NoSummary
    /\ trace = <<>>
    /\ snaps = <<>>
    /\ decays = {}
    /\ lastIns = EmptyFn
    /\ victim = -1
    /\ args = NoArgs

\* mutant of CountAddress: every miss counts as an eviction
CountEveryMissAsEviction(s, hit, didEvict) ==
    [addressesProcessed |-> Add(s.addressesProcessed, One),
     hits |-> IF hit THEN Add(s.hits, One) ELSE s.hits,
     misses |-> IF hit THEN s.misses ELSE Add(s.misses, One),
     evictions |-> IF ~hit THEN Add(s.evictions, One) ELSE s.evictions]

\* the statistics of main after one more address
CountAddress(s, hit, didEvict) ==
    [addressesProcessed |-> Add(s.addressesProcessed, One),
     hits |-> IF hit THEN Add(s.hits, One) ELSE s.hits,
     misses |-> IF hit THEN s.misses ELSE Add(s.misses, One),
     evictions |-> IF ~hit /\ didEvict THEN Add(s.evictions, One) ELSE s.evictions]

\* the fault branch of the loop of main is ensureResidentPage; the hit branch
\* leaves the replacement state and the trie alone
ResolveAddress(p, h, r1, va, fullVPN, m) ==
    IF m.found
    THEN [pfn |-> m.frameNumber, r |-> r1, h |-> h, didFault |-> FALSE,
          didEvict |-> FALSE, evictedVPN |-> 0, evictedAgeBits |-> 0, ub |-> FALSE]
    ELSE ensureResidentPage(p, h, r1, va, fullVPN)

\* one iteration of the loop of main for the address va; after the read of
\* rs.loaded[-1] nothing is known about the run, which stops at "undefined"
ProcessAddress(va) ==
    /\ pc = "run"
    /\ Len(trace) < MaxAddrs
    /\ \E r1 \in {tickReplacementClock(rs)}, m \in {searchMappedPfn(pt, heap, va)},
          fullVPN \in {getFullVPN(pt, va)}, offset \in {getOffsetFromVA(pt, va)} :
         \E res \in {ResolveAddress(pt, SearchEffect(pt, heap, va), r1, va, fullVPN, m)} :
           \E r3 \in {noteFrameAccess(res.r, fullVPN, res.pfn)} :
             /\ rs' = r3
             /\ heap' = res.h
             /\ stats' = CountAddress(stats, m.found, res.didEvict)
             /\ ev' = [va |-> va, fullVPN |-> fullVPN, hit |-> m.found, pfn |-> res.pfn,
                       didFault |-> res.didFault, didEvict |-> res.didEvict,
                       evictedVPN |-> res.evictedVPN,
                       evictedAgeBits |-> res.evictedAgeBits, offset |-> offset,
                       pa |-> composePhysicalAddress(pt, res.pfn, offset),
                       ub |-> res.ub, loadedAtLookup |-> r1.loaded]
             /\ trace' = Append(trace, fullVPN)
             /\ snaps' = Append(snaps, r3.loaded)
             /\ decays' = IF AgingDue(rs) THEN decays \cup {Len(trace) + 1} ELSE decays
             /\ pc' = IF res.ub THEN "undefined" ELSE pc
    /\ UNCHANGED <<cfg, pt, summary, lastIns, victim, args>>

\* the end of the trace (or the -n limit): the summary
EndOfTrace ==
    /\ pc = "run"
    /\ pc' = "done"
    /\ summary' = [pageSize |-> Shl(One, pt.offsetBits),
                   evictions |-> stats.evictions, hits |-> stats.hits,
                   addresses |-> stats.addressesProcessed,
                   framesAllocated |-> rs.nextFreeFrame,
                   pageTableEntries |-> countEntriesRecursiveLocal(pt, heap, pt.rootLevel)]
    /\ UNCHANGED <<cfg, pt, heap, rs, stats, ev, trace, snaps, decays, lastIns, victim, args>>

Next ==
    \/ \E va \in Addrs : ProcessAddress(va)
    \/ EndOfTrace

Spec == Init /\ [][Next]_vars

(***************************************************************************)
(* The end of a long run: 2^32 - 1 - lead addresses have been processed,   *)
(* all of them to the page of address 0, so that the 32-bit clock and      *)
(* counters are about to wrap.  That page was loaded into frame 0 by the   *)
(* first address and hit ever since: its age is 0xFFFF, its flag is set by *)
(* the last access, and the histories start empty here.                    *)
(***************************************************************************)
LongRunTime(lead) == Hex(Half - 1, Half - 1 - lead)

LongRunState(mf, bi, lead) ==
    [maxFrames |-> mf, bitstringInterval |-> FromNat(bi),
     accessesSinceAging |-> WordMod(LongRunTime(lead), bi),
     currentTime |-> LongRunTime(lead), nextFreeFrame |-> 1,
     loaded |-> <<[fullVPN |-> 0, frameNumber |-> 0, ageBits |-> 65535,
                   lastAccessTime |-> LongRunTime(lead),
                   accessedThisInterval |-> TRUE]>>]

InitWrap ==
    /\ pc = "run"
    /\ cfg \in Configs
    /\ \E e \in RootEntriesOutcomes(cfg[1]) :
          LET c == createPageTable(Len(cfg), cfg, e)
          IN  pt = c.p /\ heap = insertMapForVpn2Pfn(c.p, c.h, Zero, 0)
    /\ \E mf \in FrameBudgets, bi \in Intervals, lead \in 0..MaxLead :
          /\ rs = LongRunState(mf, bi, lead)
          /\ stats = [addressesProcessed |-> LongRunTime(lead),
                      hits |-> LongRunTime(lead + 1), misses |-> One, evictions |-> Zero]
    /\ ev = NoEvent
    /\ summary = NoSummary
    /\ trace = <<>>
    /\ snaps = <<>>
    /\ decays = {}
    /\ lastIns = EmptyFn
    /\ victim = -1
    /\ args = NoArgs

SpecWrap == InitWrap /\ [][Next]_vars

(***************************************************************************)
(* createPageTable alone, over every configuration of at most MaxLevels    *)
(* positive widths that sum to at most 32.                                 *)
(***************************************************************************)
RECURSIVE ConfigsOfLen(_, _)
ConfigsOfLen(n, budget) ==
    IF n = 0 THEN {<<>>}
    ELSE UNION {{<<b>> \o c : c \in ConfigsOfLen(n - 1, budget - b)} :
                  b \in 1..(budget - (n - 1))}

AllConfigs == UNION {ConfigsOfLen(n, 32) : n \in 1..MaxLevels}

InitCfg ==
    /\ pc = "config"
    /\ cfg \in AllConfigs
    /\ pt = NoPageTable
    /\ heap = EmptyFn
    /\ rs = initReplacementState(AllOnes, FromNat(DefaultInterval))
    /\ stats = initStats
    /\ ev = NoEvent
    /\ summary = NoSummary
    /\ trace = <<>>
    /\ snaps = <<>>
    /\ decays = {}
    /\ lastIns = EmptyFn
    /\ victim = -1
    /\ args = NoArgs

CreateTable ==
    /\ pc = "config"
    /\ pc' = "created"
    /\ \E e \in RootEntriesOutcomes(cfg[1]) :
         \E c \in {createPageTable(Len(cfg), cfg, e)} : pt' = c.p /\ heap' = c.h
    /\ UNCHANGED <<cfg, rs, stats, ev, summary, trace, snaps, decays, lastIns, victim, args>>

NextCfg == CreateTable

SpecCfg == InitCfg /\ [][NextCfg]_vars

(***************************************************************************)
(* The page table alone: any inserts, invalidations and lookups.           *)
(***************************************************************************)
PTFrames == (-1)..MaxPTFrame

InitPT ==
    /\ pc = "pt"
    /\ cfg \in Configs
    /\ \E e \in RootEntriesOutcomes(cfg[1]) :
          LET c == createPageTable(Len(cfg), cfg, e)
          IN  pt = c.p /\ heap = c.h
    /\ rs = initReplacementState(AllOnes, FromNat(DefaultInterval))
    /\ stats = initStats
    /\ ev = NoEvent
    /\ summary = NoSummary
    /\ trace = <<>>
    /\ snaps = <<>>
    /\ decays = {}
    /\ lastIns = EmptyFn
    /\ victim = -1
    /\ args = NoArgs

PTInsert(va, frameNumber) ==
    /\ pc = "pt"
    /\ heap' = insertMapForVpn2Pfn(pt, heap, va, frameNumber)
    /\ lastIns' = (getFullVPN(pt, va) :> frameNumber) @@ lastIns
    /\ UNCHANGED <<pc, cfg, pt, rs, stats, ev, summary, trace, snaps, decays, victim, args>>

PTSearch(va) ==
    /\ pc = "pt"
    /\ \E m \in {searchMappedPfn(pt, heap, va)} :
         ev' = [NoEvent EXCEPT !.va = va, !.fullVPN = getFullVPN(pt, va),
                               !.hit = m.found, !.pfn = m.frameNumber]
    /\ heap' = SearchEffect(pt, heap, va)
    /\ UNCHANGED <<pc, cfg, pt, rs, stats, summary, trace, snaps, decays, lastIns, victim, args>>

NextPT ==
    \/ \E va \in Addrs, f \in PTFrames : PTInsert(va, f)
    \/ \E va \in Addrs : PTSearch(va)

SpecPT == InitPT /\ [][NextPT]_vars

(***************************************************************************)
(* chooseVictimIndex alone, over resident sets with ties.                  *)
(***************************************************************************)
VictimAges == {16384, 32768, 65535}
VictimTimes == {1, 2}

VictimRecord(i, age, last) ==
    [fullVPN |-> i, frameNumber |-> i - 1, ageBits |-> age,
     lastAccessTime |-> FromNat(last), accessedThisInterval |-> FALSE]

VictimInputs ==
    UNION {{[i \in 1..n |-> VictimRecord(i, a[i], t[i])] :
               a \in [1..n -> VictimAges], t \in [1..n -> VictimTimes]} : n \in 0..MaxRecs}

InitVictim ==
    /\ pc = "scan"
    /\ cfg = <<>>
    /\ pt = NoPageTable
    /\ heap = EmptyFn
    /\ \E l \in VictimInputs :
          rs = [initReplacementState(FromNat(Len(l)), FromNat(DefaultInterval)) EXCEPT !.loaded = l]
    /\ stats = initStats
    /\ ev = NoEvent
    /\ summary = NoSummary
    /\ trace = <<>>
    /\ snaps = <<>>
    /\ decays = {}
    /\ lastIns = EmptyFn
    /\ victim = -1
    /\ args = NoArgs

ChooseVictim ==
    /\ pc = "scan"
    /\ pc' = "chosen"
    /\ victim' = chooseVictimIndex(rs)
    /\ UNCHANGED <<cfg, pt, heap, rs, stats, ev, summary, trace, snaps, decays, lastIns, args>>

NextVictim == ChooseVictim

SpecVictim == InitVictim /\ [][NextVictim]_vars

(***************************************************************************)
(* main.cpp: the command line.  An option or a level width is the int that *)
(* atoi returns for its text (0 for text that is no number); <<>> is an    *)
(* option that was not given.  The trace file opens and -l is "summary".   *)
(***************************************************************************)
ArgFrames == {<<>>, <<-5>>, <<0>>, <<1>>, <<MaxFrames>>}
ArgIntervals == {<<>>, <<-1>>, <<0>>, <<MaxInterval>>}
ArgWidths == {-4, 0, 1, 8, 12, 20, 29}
ArgLevelBits == UNION {[1..n -> ArgWidths] : n \in 1..MaxLevels}

InitArgs ==
    /\ pc = "args"
    /\ \E f \in ArgFrames, b \in ArgIntervals, bits \in ArgLevelBits :
          args = [NoArgs EXCEPT !.f = f, !.b = b, !.bits = bits]
    /\ cfg = <<>>
    /\ pt = NoPageTable
    /\ heap = EmptyFn
    /\ rs = initReplacementState(Zero, Zero)
    /\ stats = initStats
    /\ ev = NoEvent
    /\ summary = NoSummary
    /\ trace = <<>>
    /\ snaps = <<>>
    /\ decays = {}
    /\ lastIns = EmptyFn
    /\ victim = -1

\* the getopt loop: `(unsigned int) atoi(optarg)`, then `< 1`
ParseOptions ==
    /\ pc = "args"
    /\ \E mf \in {IF args.f = <<>> THEN args.maxFrames ELSE IntToWord(args.f[1])},
          bi \in {IF args.b = <<>> THEN args.bitInterval ELSE IntToWord(args.b[1])} :
         IF mf = Zero \/ bi = Zero
         THEN pc' = "rejectedOption" /\ args' = args
         ELSE pc' = "levels" /\ args' = [args EXCEPT !.maxFrames = mf, !.bitInterval = bi]
    /\ UNCHANGED <<cfg, pt, heap, rs, stats, ev, summary, trace, snaps, decays, lastIns, victim>>

\* the level-bits loop and the test of sumBits
CollectLevelBits ==
    /\ pc = "levels"
    /\ \E tb \in {[i \in 1..Len(args.bits) |-> IntToWord(args.bits[i])]} :
         \E sum \in {SumWords(tb)} :
           IF (\E i \in 1..Len(tb) : tb[i] = Zero) \/ WordLess(FromNat(MaxSumBits), sum)
           THEN pc' = "rejectedLevels" /\ args' = args
           ELSE pc' = "build" /\ args' = [args EXCEPT !.tempBits = tb, !.sumBits = sum]
    /\ UNCHANGED <<cfg, pt, heap, rs, stats, ev, summary, trace, snaps, decays, lastIns, victim>>

\* createPageTable(levelCount, tempBits); a width of 32 or more (a negative
\* argument that wrapped) makes `1u << bits` undefined
BuildPageTable ==
    /\ pc = "build"
    /\ IF \A i \in 1..Len(args.tempBits) : WordLess(args.tempBits[i], FromNat(WordBits))
       THEN /\ pc' = "init"
            /\ cfg' = [i \in 1..Len(args.tempBits) |-> ToNat(args.tempBits[i])]
            /\ \E e \in RootEntriesOutcomes(cfg'[1]) :
                 \E c \in {createPageTable(Len(cfg'), cfg', e)} : pt' = c.p /\ heap' = c.h
       ELSE /\ pc' = "undefined"
            /\ UNCHANGED <<cfg, pt, heap>>
    /\ UNCHANGED <<rs, stats, ev, summary, trace, snaps, decays, lastIns, victim, args>>

\* initReplacementState and initStats: the state the address loop starts from
InitReplacement ==
    /\ pc = "init"
    /\ pc' = "run"
    /\ rs' = initReplacementState(args.maxFrames, args.bitInterval)
    /\ stats' = initStats
    /\ UNCHANGED <<cfg, pt, heap, ev, summary, trace, snaps, decays, lastIns, victim, args>>

NextArgs ==
    \/ ParseOptions
    \/ CollectLevelBits
    \/ BuildPageTable
    \/ InitReplacement

SpecArgs == InitArgs /\ [][NextArgs]_vars

(***************************************************************************)
(* Properties.                                                             *)
(***************************************************************************)
Running == pc \in {"run", "done"}
N == Len(trace)
Range(f) == {f[x] : x \in DOMAIN f}
Bounded == rs.maxFrames # AllOnes

RECURSIVE SumFn(_, _)
SumFn(f, S) ==
    IF S = {} THEN 0
    ELSE LET x == CHOOSE x \in S : TRUE IN f[x] + SumFn(f, S \ {x})

\* C1: with a frame budget B >= 1, after any processed addresses at most B
\* records are resident and no two of them hold the same frame number.
C1_BudgetAndDistinctFrames ==
    Running =>
        /\ Bounded => Len(rs.loaded) <= ToNat(rs.maxFrames)
        /\ \A i, j \in 1..Len(rs.loaded) :
              i # j => rs.loaded[i].frameNumber # rs.loaded[j].frameNumber

\* C1 witness: the budget of 2 is full and a page has been evicted into it
C1_Witness ==
    /\ pc = "run"
    /\ rs.maxFrames = FromNat(2)
    /\ Len(rs.loaded) = 2
    /\ stats.evictions # Zero

\* C2: no two resident records hold the same VPN.
C2_DistinctVPNs ==
    Running =>
        \A i, j \in 1..Len(rs.loaded) :
            i # j => rs.loaded[i].fullVPN # rs.loaded[j].fullVPN

\* C2 witness: two pages resident, one of them loaded by an eviction, one of
\* them reloaded after having been evicted
C2_Witness ==
    /\ pc = "run"
    /\ Len(rs.loaded) = 2
    /\ ev.didEvict
    /\ \E t \in 1..(N - 1) : trace[t] = ev.fullVPN

\* the record at slot i sorts no later than e: lower age, or equal age and a
\* last access no later
NoLaterVictim(v, e) ==
    \/ v.ageBits < e.ageBits
    \/ v.ageBits = e.ageBits /\ ~WordLess(e.lastAccessTime, v.lastAccessTime)

\* the slot the last address evicted: it held the reported VPN when the victim
\* was chosen and holds the new page now
EvictedSlots ==
    {i \in 1..Len(ev.loadedAtLookup) :
        /\ ev.loadedAtLookup[i].fullVPN = ev.evictedVPN
        /\ rs.loaded[i].fullVPN = ev.fullVPN}

\* C3: the record evicted on a fault with the budget exhausted has the minimum
\* age among the resident records and, among those of that age, the smallest
\* last-access timestamp.
C3_VictimIsMinimum ==
    (Running /\ ev.didEvict) =>
        /\ EvictedSlots # {}
        /\ \A i \in EvictedSlots :
              \A j \in 1..Len(ev.loadedAtLookup) :
                  NoLaterVictim(ev.loadedAtLookup[i], ev.loadedAtLookup[j])

\* C3 witness: an eviction among records of equal age, where the victim is not
\* the first record
C3_Witness ==
    /\ pc = "run"
    /\ ev.didEvict
    /\ Len(ev.loadedAtLookup) = 2
    /\ ev.loadedAtLookup[1].ageBits = ev.loadedAtLookup[2].ageBits
    /\ EvictedSlots = {2}

\* the records of the scan's input that reach the minimum on both keys
MinimalRecords ==
    {i \in 1..Len(rs.loaded) :
        \A j \in 1..Len(rs.loaded) : NoLaterVictim(rs.loaded[i], rs.loaded[j])}

\* C4: when several records tie at the minimum on age and on last-access
\* timestamp, the scan returns the lowest storage index among them.
C4_FirstOfTiedMinimum ==
    (pc = "chosen" /\ rs.loaded # <<>>) =>
        /\ victim + 1 \in MinimalRecords
        /\ \A i \in MinimalRecords : victim + 1 <= i

\* C4 witness: two records tie at the minimum on both keys behind a record
\* that is not minimal
C4_Witness ==
    /\ pc = "chosen"
    /\ MinimalRecords = {2, 3}
    /\ victim = 1

\* the interval of the run
Interval == ToNat(rs.bitstringInterval)

\* slot i holds the same page after each of the last Interval addresses and
\* after the address before them, and none of these addresses is to that page
UntouchedRun(i) ==
    /\ N >= Interval + 1
    /\ i <= Len(snaps[N - Interval])
    /\ \A t \in (N - Interval + 1)..N :
          /\ snaps[t][i].fullVPN = snaps[N - Interval][i].fullVPN
          /\ trace[t] # snaps[N - Interval][i].fullVPN

\* the positions among the last Interval addresses at which the decay ran
DecaysInRun == {d \in decays : d > N - Interval}

\* the page was accessed in the aging interval that the decay at address d ended:
\* after the previous decay (the access of an address follows its decay) and
\* before d
TouchedInAgingInterval(vpn, d) ==
    LET before == {x \in decays : x < d}
        prev == IF before = {} THEN 1 ELSE CHOOSE x \in before : \A y \in before : y <= x
    IN  \E t \in prev..(d - 1) : trace[t] = vpn

\* C5: over a run of exactly `interval` addresses that neither touch nor evict
\* a resident record, exactly one decay runs, and the record's age at the end
\* is its age at the start shifted right by one, with bit 15 clear if (and set
\* only if) the record was untouched in the aging interval the decay ended.
C5_OneDecayPerRun ==
    Running =>
        \A i \in 1..Len(rs.loaded) :
            UntouchedRun(i) =>
                /\ Cardinality(DecaysInRun) = 1
                /\ rs.loaded[i].ageBits % 32768 = snaps[N - Interval][i].ageBits \div 2
                /\ \A d \in DecaysInRun :
                      (rs.loaded[i].ageBits < 32768)
                          <=> ~TouchedInAgingInterval(rs.loaded[i].fullVPN, d)

\* C5 witness: a record untouched over a run of 2 addresses and over the aging
\* interval that ended in it: 0xC000 became 0x6000
C5_Witness ==
    /\ pc = "run"
    /\ Interval = 2
    /\ \E i \in 1..Len(rs.loaded) :
          /\ UntouchedRun(i)
          /\ snaps[N - Interval][i].ageBits = 49152
          /\ rs.loaded[i].ageBits = 24576

\* C6: translating A returns F from insert(A, F) with F >= 0 on, across the
\* inserts and invalidations of other pages, until A's page is inserted or
\* invalidated again.
C6_RoundTrip ==
    pc = "pt" =>
        \A va \in Addrs :
            LET vpn == getFullVPN(pt, va)
            IN  (vpn \in DOMAIN lastIns /\ lastIns[vpn] >= 0) =>
                    searchMappedPfn(pt, heap, va) =
                        [found |-> TRUE, frameNumber |-> lastIns[vpn]]

\* C6 witness: three pages inserted, one of them invalidated after the others
\* were mapped, under the three-level configuration
C6_Witness ==
    /\ pc = "pt"
    /\ pt.levelCount = 3
    /\ \E a, b, c \in DOMAIN lastIns :
          /\ a # b /\ b # c /\ a # c
          /\ lastIns[a] = 0 /\ lastIns[b] = 1 /\ lastIns[c] = -1
    /\ ev.hit /\ ev.pfn = 1

\* the highest bit of level i's slice: bit 31, or the bit below level i-1's
TopBit(i) == IF i = 1 THEN 31 ELSE pt.levelShift[i - 1] - 1

\* C7: the level widths and the offset width sum to 32; every address bit is
\* in exactly one of the level masks and the offset mask; each level's mask is
\* the contiguous slice of its width directly below the previous level's, and
\* its shift is the position of the mask's lowest bit.
C7_MasksPartitionAddress ==
    pc = "created" =>
        /\ SumSeq(pt.levelBits) + pt.offsetBits = 32
        /\ \A b \in BitIdx :
              Cardinality({i \in 1..pt.levelCount : Bit(pt.levelMask[i], b) = 1})
                  + Bit(pt.offsetMask, b) = 1
        /\ \A i \in 1..pt.levelCount :
              /\ TopBit(i) - pt.levelShift[i] + 1 = pt.levelBits[i]
              /\ \A b \in BitIdx :
                    Bit(pt.levelMask[i], b) = 1 <=> (pt.levelShift[i] <= b /\ b <= TopBit(i))
        /\ \A b \in BitIdx : Bit(pt.offsetMask, b) = 1 <=> b < pt.offsetBits

\* C7 witness: two levels of 16 bits, which leave no offset bits
C7_Witness ==
    /\ pc = "created"
    /\ cfg = <<16, 16>>
    /\ pt.levelMask[1] = Hex(65535, 0)
    /\ pt.levelMask[2] = Hex(0, 65535)
    /\ pt.levelShift = <<16, 0>>
    /\ pt.offsetMask = Zero

InteriorIds == {id \in DOMAIN heap : heap[id].depth # pt.levelCount - 1}
LeafIds == {id \in DOMAIN heap : heap[id].depth = pt.levelCount - 1}

\* non-empty child slots over all interior nodes
InteriorSlotCount ==
    SumFn([id \in InteriorIds |-> Cardinality(DOMAIN heap[id].nextLevelArray.slot)],
          InteriorIds)

\* valid terminal mappings over all terminal nodes
ValidMappingCount ==
    SumFn([id \in LeafIds |->
              Cardinality({i \in DOMAIN heap[id].mapArray.slot :
                              /\ heap[id].mapArray.slot[i].valid
                              /\ heap[id].mapArray.slot[i].frameNumber >= 0})],
          LeafIds)

\* the slots, valid or not, of the allocated terminal mapping arrays
AllocatedMappingSlots ==
    SumFn([id \in LeafIds |->
              IF heap[id].mapArray.alloc THEN 2 ^ pt.levelBits[pt.levelCount] ELSE 0],
          LeafIds)

\* C8 as stated: the entry count of the summary is the number of non-empty
\* child slots of the interior nodes plus the number of valid terminal mappings.
C8_CountsValidMappings ==
    pc = "done" => summary.pageTableEntries = InteriorSlotCount + ValidMappingCount

\* C8 as amended: the entry count of the summary is the number of non-empty
\* child slots of the interior nodes plus, for every terminal node whose
\* mapping array has been allocated, all 2^(last level width) slots of that
\* array, whether valid, invalidated or never mapped.
C8_CountsAllocatedSlots ==
    pc = "done" => summary.pageTableEntries = InteriorSlotCount + AllocatedMappingSlots

\* C8 witness: two mappings that share every level but the last, one of them
\* invalidated by an eviction: 2 interior slots and one array of 256
C8_Witness ==
    /\ pc = "done"
    /\ cfg = <<4, 8, 8>>
    /\ stats.evictions # Zero
    /\ Cardinality(DOMAIN heap) = 3
    /\ \E id \in LeafIds :
          /\ Cardinality(DOMAIN heap[id].mapArray.slot) = 2
          /\ \E i \in DOMAIN heap[id].mapArray.slot : ~heap[id].mapArray.slot[i].valid
    /\ summary.pageTableEntries = 258

\* the position in the trace of the first access to the page of the last address
FirstAccess == CHOOSE t \in 1..N : trace[t] = trace[N] /\ \A u \in 1..(t - 1) : trace[u] # trace[N]

\* C9: without a frame budget nothing is ever evicted; the first access to a
\* page is a miss that gets the next unused frame (0, 1, 2, ... by first
\* access), every later access to it is a hit on that frame, and misses =
\* frames allocated = distinct pages touched.
C9_UnboundedNeverEvicts ==
    (pc \in {"run", "done", "undefined"} /\ ~Bounded) =>
        /\ stats.evictions = Zero
        /\ stats.misses = FromNat(Cardinality(Range(trace)))
        /\ rs.nextFreeFrame = Cardinality(Range(trace))
        /\ pc = "done" => summary.framesAllocated = Cardinality(Range(trace))
        /\ N >= 1 =>
              /\ ~ev.didEvict
              /\ ev.hit <=> FirstAccess < N
              /\ ev.pfn = Cardinality({trace[t] : t \in 1..FirstAccess}) - 1

\* C9 witness: the scenario of the specification, misses on frames 0 and 1 and
\* then a hit on frame 0
C9_Witness ==
    /\ pc = "done"
    /\ ~Bounded
    /\ Interval = DefaultInterval
    /\ cfg = <<4, 8, 8>>
    /\ trace = <<0, 1, 0>>
    /\ ev.hit /\ ev.pfn = 0
    /\ summary.hits = FromNat(1) /\ stats.misses = FromNat(2) /\ summary.evictions = Zero
    /\ summary.framesAllocated = 2

\* C10: with a budget of 1 the first access allocates frame 0, and every later
\* access to a page other than the resident one is a miss that evicts the page
\* resident just before it and resolves to the reused frame 0.
C10_BudgetOne ==
    (Running /\ rs.maxFrames = FromNat(1)) =>
        /\ N = 1 => (~ev.hit /\ ~ev.didEvict /\ ev.pfn = 0)
        /\ (N >= 2 /\ trace[N] # snaps[N - 1][1].fullVPN) =>
              /\ ~ev.hit
              /\ ev.didEvict
              /\ ev.evictedVPN = snaps[N - 1][1].fullVPN
              /\ ev.evictedVPN = trace[N - 1]
              /\ ev.pfn = 0

\* C10 witness: the scenario of the specification, 0x00001000 evicts the page
\* of 0x00000000
C10_Witness ==
    /\ pc = "run"
    /\ rs.maxFrames = FromNat(1)
    /\ cfg = <<4, 8, 8>>
    /\ trace = <<0, 1>>
    /\ ev.didEvict /\ ev.evictedVPN = 0 /\ ev.pfn = 0

(***************************************************************************)
(* C11.                                                                    *)
(***************************************************************************)
\* main has decided on the level widths
LevelsDecided == pc \in {"rejectedLevels", "build", "init", "undefined", "run"}

\* some width is not positive, or the widths sum to more than the address width
InvalidLevelBits ==
    \/ \E i \in 1..Len(args.bits) : args.bits[i] <= 0
    \/ SumSeq(args.bits) > WordBits

\* C11: a level-bit configuration is rejected before any address is processed
\* exactly when some width is not positive or the widths sum to more than 32;
\* every configuration of positive widths summing to at most 32 is accepted
\* and goes on to the simulation.
C11_RejectedIffInvalid ==
    LevelsDecided =>
        /\ (pc = "rejectedLevels") <=> InvalidLevelBits
        /\ ~InvalidLevelBits => pc \in {"build", "init", "run"}

(***************************************************************************)
(* C12.                                                                    *)
(***************************************************************************)
\* C12: a frame budget or an aging interval that is zero or negative is
\* rejected before the replacement state is created and before any address is
\* read: main never gets past its option loop with such a value.
C12_NonPositiveOptionRejected ==
    (\/ args.f # <<>> /\ args.f[1] <= 0
     \/ args.b # <<>> /\ args.b[1] <= 0) => pc \in {"args", "rejectedOption"}

(***************************************************************************)
(* C13.                                                                    *)
(***************************************************************************)
\* C13: whenever a fault occurs with the frame budget exhausted the resident
\* set is non-empty and the victim scan returns the index of one of its
\* records, never -1, and every processed address resolves to a frame
\* number >= 0.
C13_FaultHandlingTotal ==
    (pc \in {"run", "done", "undefined"} /\ N >= 1) =>
        /\ ev.didEvict =>
              /\ ev.loadedAtLookup # <<>>
              /\ chooseVictimIndex([rs EXCEPT !.loaded = ev.loadedAtLookup])
                     \in 0..(Len(ev.loadedAtLookup) - 1)
              /\ ~ev.ub
        /\ ev.pfn >= 0

(***************************************************************************)
(* C14.                                                                    *)
(***************************************************************************)
\* bit b of the frame number composed with the offset bits of va
ComposedBit(frame, va, b) ==
    IF b < pt.offsetBits THEN Bit(va, b)
    ELSE (frame \div (2 ^ (b - pt.offsetBits))) % 2

\* C14: the physical address reported for a processed address has the frame
\* number in its bits above the offset width and the virtual address's offset
\* bits below; the frame number is at least 0 and less than 2^(sum of level
\* widths), so no frame bit is shifted out of the 32 bits.
C14_PhysicalAddressComposed ==
    (Running /\ N >= 1) =>
        /\ 0 <= ev.pfn /\ ev.pfn < 2 ^ SumSeq(pt.levelBits)
        /\ \A b \in BitIdx : Bit(ev.pa, b) = ComposedBit(ev.pfn, ev.va, b)

\* C14 witness: one level of 1 bit; the page of 0x00001000 is the second one
\* loaded and gets frame 1, whose only bit is bit 31 of 0x80001000
C14_Witness ==
    /\ pc = "run"
    /\ cfg = <<1>>
    /\ ev.va = Hex(0, 4096)
    /\ ev.pfn = 1
    /\ ev.pa = Hex(32768, 4096)

(***************************************************************************)
(* C15.                                                                    *)
(***************************************************************************)
\* the resident records of the page of the last address
RecordsOfLast == {i \in 1..Len(rs.loaded) : rs.loaded[i].fullVPN = ev.fullVPN}

\* C15: when an address that faulted has been fully processed, the record the
\* fault created, in a fresh frame or in the slot of the evicted record, has
\* the age bitstring 0x8000.
C15_NewRecordAge ==
    (Running /\ N >= 1 /\ ~ev.hit) =>
        /\ RecordsOfLast # {}
        /\ \A i \in RecordsOfLast : rs.loaded[i].ageBits = 32768

\* C15 witness: a fault on an address whose tick ran the decay reuses the slot
\* of a record whose age was 0x6000
C15_Witness ==
    /\ pc = "run"
    /\ ev.didEvict
    /\ ev.evictedAgeBits = 24576
    /\ N \in decays
    /\ \E i \in EvictedSlots : rs.loaded[i].ageBits = 32768

(***************************************************************************)
(* C16.                                                                    *)
(***************************************************************************)
\* the resident records before the last address was processed
LoadedBefore == IF N = 1 THEN <<>> ELSE snaps[N - 1]

\* what a decay makes of a record
Decayed(e) ==
    [e EXCEPT !.ageBits = (e.ageBits \div 2) + (IF e.accessedThisInterval THEN 32768 ELSE 0),
              !.accessedThisInterval = FALSE]

\* C16: the decay runs on the addresses whose position is a multiple of the
\* interval and on no other; the tick of such an address shifts every resident
\* record's age right by one, sets bit 15 iff the record's accessed flag was
\* true, clears every accessed flag and resets the counter to 0; the tick of
\* any other address leaves the records alone; after every tick the counter
\* is in 0..interval-1.
C16_DecayEveryInterval ==
    Running =>
        /\ decays = {t \in 1..N : t % Interval = 0}
        /\ rs.accessesSinceAging = N % Interval
        /\ rs.accessesSinceAging \in 0..(Interval - 1)
        /\ N >= 1 =>
              /\ Len(ev.loadedAtLookup) = Len(LoadedBefore)
              /\ \A i \in 1..Len(LoadedBefore) :
                    ev.loadedAtLookup[i] = IF N \in decays THEN Decayed(LoadedBefore[i])
                                           ELSE LoadedBefore[i]
              /\ N \in decays => rs.accessesSinceAging = 0

\* C16 witness: interval 3; the third address runs the first decay over a
\* record that was accessed (0x8000 to 0xC000) and, after it, the fourth
\* address runs none
C16_Witness ==
    /\ pc = "run"
    /\ Interval = 3
    /\ N = 4
    /\ decays = {3}
    /\ \E i \in 1..Len(snaps[2]) :
          /\ snaps[2][i].ageBits = 32768 /\ snaps[2][i].accessedThisInterval
          /\ snaps[3][i].ageBits = 49152
          /\ ev.loadedAtLookup[i] = snaps[3][i]

(***************************************************************************)
(* C17.                                                                    *)
(***************************************************************************)
\* C17: on a miss that evicts, the reported VPN and age are those of the
\* victim's record as the victim scan saw it: after the decay that this
\* address's tick ran, if it ran one, and before the slot was reset to 0x8000
\* for the new page.
C17_EvictionReport ==
    (Running /\ ev.didEvict) =>
        /\ EvictedSlots # {}
        /\ \A i \in EvictedSlots :
              /\ ev.evictedVPN = LoadedBefore[i].fullVPN
              /\ ev.evictedAgeBits = IF N \in decays THEN Decayed(LoadedBefore[i]).ageBits
                                     ELSE LoadedBefore[i].ageBits
              /\ chooseVictimIndex([rs EXCEPT !.loaded = ev.loadedAtLookup]) = i - 1
              /\ rs.loaded[i].ageBits = 32768

\* C17 witness: an eviction on an address whose tick ran the decay: the victim
\* stood at 0x8000 before the tick and is reported with 0xC000
C17_Witness ==
    /\ pc = "run"
    /\ ev.didEvict
    /\ N \in decays
    /\ ev.evictedAgeBits = 49152
    /\ \E i \in EvictedSlots : LoadedBefore[i].ageBits = 32768

(***************************************************************************)
(* C18.                                                                    *)
(***************************************************************************)
\* the trace addresses and the first address of every page resident in l
ProbeAddrs(l) == Addrs \cup {Shl(FromNat(l[i].fullVPN), pt.offsetBits) : i \in 1..Len(l)}

\* the step processes an address that evicts
EvictingStep == pc = "run" /\ pc' = "run" /\ Len(trace') = Len(trace) + 1 /\ ev'.didEvict

\* the translations after an eviction of page V for page P, against those before
EvictionRemaps ==
    \A va \in ProbeAddrs(rs.loaded) :
        LET vpn == getFullVPN(pt, va)
            after == searchMappedPfn(pt, heap', va)
        IN  IF vpn = ev'.fullVPN
            THEN \E i \in 1..Len(rs.loaded) :
                    /\ rs.loaded[i].fullVPN = ev'.evictedVPN
                    /\ after = [found |-> TRUE, frameNumber |-> rs.loaded[i].frameNumber]
                    /\ searchMappedPfn(pt, heap, VictimVA(pt, ev'.evictedVPN)) = after
            ELSE IF vpn = ev'.evictedVPN
            THEN ~after.found
            ELSE after = searchMappedPfn(pt, heap, va)

\* C18: after a miss that evicts page V to load page P, an address of V
\* translates to not-found, an address of P translates to the frame V held
\* before the eviction, and the translation of every other page, resident or
\* not, is what it was.
C18_EvictionRemaps == [][EvictingStep => EvictionRemaps]_vars

\* C18 witness: budget 2 under <<8>>: the page of 0x00000000 and 0x00001000 is
\* evicted while another page stays resident, and both its addresses have
\* lost their translation
C18_Witness ==
    /\ pc = "run"
    /\ cfg = <<8>>
    /\ Len(rs.loaded) = 2
    /\ ev.didEvict /\ ev.evictedVPN = 0
    /\ ~searchMappedPfn(pt, heap, Hex(0, 0)).found
    /\ ~searchMappedPfn(pt, heap, Hex(0, 4096)).found
    /\ searchMappedPfn(pt, heap, ev.va) = [found |-> TRUE, frameNumber |-> ev.pfn]
    /\ \E i \in 1..2 :
          /\ rs.loaded[i].fullVPN # ev.fullVPN
          /\ searchMappedPfn(pt, heap, VictimVA(pt, rs.loaded[i].fullVPN)).found

(***************************************************************************)
(* C19.                                                                    *)
(***************************************************************************)
\* the slots whose record held the evicted page when the step began
VictimSlots == {i \in 1..Len(rs.loaded) : rs.loaded[i].fullVPN = ev'.evictedVPN}

\* the resident records after an eviction, against those before the step and
\* those the tick of the step left (ev'.loadedAtLookup)
EvictionInPlace ==
    /\ Len(rs'.loaded) = Len(rs.loaded)
    /\ Len(ev'.loadedAtLookup) = Len(rs.loaded)
    /\ rs'.nextFreeFrame = rs.nextFreeFrame
    /\ Cardinality(VictimSlots) = 1
    /\ \A i \in 1..Len(rs.loaded) :
          /\ rs'.loaded[i].frameNumber = rs.loaded[i].frameNumber
          /\ IF i \in VictimSlots
             THEN /\ rs'.loaded[i].fullVPN = ev'.fullVPN
                  /\ rs'.loaded[i].ageBits = 32768
                  /\ rs'.loaded[i].lastAccessTime = rs'.currentTime
             ELSE /\ rs'.loaded[i].fullVPN = rs.loaded[i].fullVPN
                  /\ rs'.loaded[i] = ev'.loadedAtLookup[i]

\* C19: an eviction keeps the number of resident records and their storage
\* order; the victim's slot gets the new VPN, the age 0x8000 and the current
\* time and keeps its frame number; every other record is, field by field,
\* what the tick of this address left; the next unused frame number is
\* unchanged.
C19_EvictionInPlace == [][EvictingStep => EvictionInPlace]_vars

\* C19 witness: budget 2, the first of the two records is overwritten in
\* place: it holds the new page in its old frame 0, in front of the record of
\* frame 1
C19_Witness ==
    /\ pc = "run"
    /\ ev.didEvict
    /\ Len(rs.loaded) = 2
    /\ EvictedSlots = {1}
    /\ rs.loaded[1].frameNumber = 0 /\ rs.loaded[1].fullVPN = ev.fullVPN
    /\ rs.loaded[2].frameNumber = 1 /\ rs.loaded[2] = ev.loadedAtLookup[2]
    /\ rs.nextFreeFrame = 2

(***************************************************************************)
(* C20.                                                                    *)
(***************************************************************************)
\* the resident (VPN, frame) pairs of l
ResidentPairs(l) == {<<l[i].fullVPN, l[i].frameNumber>> : i \in 1..Len(l)}

\* the slots whose record holds the page of the address the step processes
HitSlots == {i \in 1..Len(rs.loaded) : rs.loaded[i].fullVPN = ev'.fullVPN}

\* the step processes an address whose page is resident
ResidentStep == pc = "run" /\ Len(trace') = Len(trace) + 1 /\ HitSlots # {}

\* what such a step returns and leaves alone
HitFrame ==
    /\ ev'.hit /\ ~ev'.didFault /\ ~ev'.didEvict
    /\ \A i \in HitSlots : ev'.pfn = rs.loaded[i].frameNumber
    /\ heap' = heap /\ pt' = pt
    /\ ResidentPairs(rs'.loaded) = ResidentPairs(rs.loaded)
    /\ rs'.nextFreeFrame = rs.nextFreeFrame
    /\ stats'.misses = stats.misses /\ stats'.evictions = stats.evictions
    /\ rs'.maxFrames = rs.maxFrames /\ rs'.bitstringInterval = rs.bitstringInterval
    /\ Len(rs'.loaded) = Len(rs.loaded)
    /\ \A i \in 1..Len(rs.loaded) :
          IF i \in HitSlots
          THEN rs'.loaded[i] = [ev'.loadedAtLookup[i] EXCEPT
                                   !.lastAccessTime = rs'.currentTime,
                                   !.accessedThisInterval = TRUE]
          ELSE rs'.loaded[i] = ev'.loadedAtLookup[i]

\* C20: processing an address whose page is resident is a hit that returns
\* the frame of the page's record; the trie and its mappings, the resident
\* (VPN, frame) pairs, the next unused frame number and the miss and eviction
\* counts are unchanged, and the records differ from those the tick left only
\* by the access note (time and flag) on the page's own record.
C20_HitFrame == [][ResidentStep => HitFrame]_vars

\* C20 witness: a hit on one of two resident pages on an address whose tick
\* ran the decay; the other record keeps its cleared flag
C20_Witness ==
    /\ pc = "run"
    /\ ev.hit
    /\ N \in decays
    /\ Len(rs.loaded) = 2
    /\ \E i, j \in 1..2 :
          /\ rs.loaded[i].fullVPN = ev.fullVPN /\ rs.loaded[i].accessedThisInterval
          /\ rs.loaded[i].lastAccessTime = rs.currentTime
          /\ j # i /\ ~rs.loaded[j].accessedThisInterval
          /\ rs.loaded[j] = ev.loadedAtLookup[j]

(***************************************************************************)
(* C21.                                                                    *)
(***************************************************************************)
\* C21: after an address has been fully processed (hit, allocating miss or
\* evicting miss) the resident record of its page has the accessed flag set
\* and the current clock value as its last-access timestamp, and every other
\* record is what the tick of this address left: the access note touched
\* the flag and the timestamp of no other record.
C21_AccessNote ==
    (Running /\ N >= 1) =>
        /\ Cardinality(RecordsOfLast) = 1
        /\ \A i \in RecordsOfLast :
              /\ rs.loaded[i].accessedThisInterval
              /\ rs.loaded[i].lastAccessTime = rs.currentTime
              /\ rs.loaded[i].frameNumber = ev.pfn
        /\ \A j \in 1..Len(rs.loaded) :
              j \notin RecordsOfLast =>
                  /\ j <= Len(ev.loadedAtLookup)
                  /\ rs.loaded[j] = ev.loadedAtLookup[j]

\* C21 witness: a hit on a page last accessed at an earlier clock value,
\* beside another resident record whose flag the decay of this address cleared
C21_Witness ==
    /\ pc = "run"
    /\ ev.hit
    /\ N \in decays
    /\ \E i, j \in 1..Len(rs.loaded) :
          /\ i \in RecordsOfLast
          /\ snaps[N - 1][i].lastAccessTime # rs.currentTime
          /\ rs.loaded[i].lastAccessTime = rs.currentTime
          /\ j \notin RecordsOfLast
          /\ ~rs.loaded[j].accessedThisInterval
          /\ rs.loaded[j].lastAccessTime # rs.currentTime

(***************************************************************************)
(* C22.                                                                    *)
(***************************************************************************)
\* the node the walk of va reaches at depth d, named by the indices above it
PathId(va, d) == [k \in 1..d |-> IndexAt(pt, va, k - 1)]

\* the walk of va finds, in the trie h, a child in every interior slot on its
\* way and a valid mapping in the terminal slot
MappedIn(h, va) ==
    /\ \A d \in 0..(pt.levelCount - 2) :
          /\ PathId(va, d) \in DOMAIN h
          /\ h[PathId(va, d)].nextLevelArray.alloc
          /\ IndexAt(pt, va, d) \in DOMAIN h[PathId(va, d)].nextLevelArray.slot
    /\ PathId(va, pt.levelCount - 1) \in DOMAIN h
    /\ LET leaf == h[PathId(va, pt.levelCount - 1)]
           idx == IndexAt(pt, va, pt.levelCount - 1)
       IN  /\ leaf.mapArray.alloc
           /\ idx \in DOMAIN leaf.mapArray.slot
           /\ leaf.mapArray.slot[idx].valid
           /\ leaf.mapArray.slot[idx].frameNumber >= 0

\* a step of the page table alone that is a lookup: it records no insert
LookupStep == pc = "pt" /\ lastIns' = lastIns

\* C22: a lookup leaves the trie as it was, nodes and mapping slots alike,
\* whether the address is mapped or not, and it returns not-found when its
\* walk meets an empty child slot, an unallocated array or an invalid
\* terminal slot (and the mapping otherwise).
C22_LookupReadsOnly ==
    [][LookupStep =>
          /\ heap' = heap
          /\ ev' # ev => /\ ev'.hit <=> MappedIn(heap, ev'.va)
                         /\ ~ev'.hit => ev'.pfn = -1]_vars

\* C22 witness: under <<4, 8, 8>> the lookup of 0x00001000 has met an invalid
\* slot in the terminal array it shares with the mapped page of 0x00000000,
\* while the page of 0x01000ABC has no terminal node at all
C22_Witness ==
    /\ pc = "pt"
    /\ cfg = <<4, 8, 8>>
    /\ ev.va = Hex(0, 4096) /\ ~ev.hit
    /\ MappedIn(heap, Hex(0, 0))
    /\ heap[<<0, 0>>].mapArray.alloc
    /\ 1 \in DOMAIN heap[<<0, 0>>].mapArray.slot
    /\ ~heap[<<0, 0>>].mapArray.slot[1].valid
    /\ <<0, 16>> \notin DOMAIN heap

(***************************************************************************)
(* C23.                                                                    *)
(***************************************************************************)
\* the nodes on the walk path of va
PathNodes(va) == {PathId(va, d) : d \in 0..(pt.levelCount - 1)}

\* the nodes on the walk paths of the addresses whose page is in pages
PathsOf(pages) == UNION {PathNodes(va) : va \in {a \in Addrs : getFullVPN(pt, a) \in pages}}

\* the pages the step inserts or invalidates
TouchedPages == {v \in DOMAIN lastIns' : v \notin DOMAIN lastIns \/ lastIns'[v] # lastIns[v]}

\* the allocated nodes are the root and the nodes on the paths of the pages
\* inserted (or invalidated) so far, each at the depth of its path
NodesAreInsertedPaths ==
    pc = "pt" =>
        /\ DOMAIN heap = {RootId} \cup PathsOf(DOMAIN lastIns)
        /\ \A id \in DOMAIN heap : heap[id].depth = Len(id)
        /\ lastIns = EmptyFn => DOMAIN heap = {RootId}

\* a step allocates only nodes on the path of the page it inserts, allocates
\* nothing for a page inserted before, and frees no node and no child slot
NodesOnlyGrow ==
    pc = "pt" =>
        /\ DOMAIN heap \subseteq DOMAIN heap'
        /\ (DOMAIN heap' \ DOMAIN heap) \subseteq PathsOf(TouchedPages \ DOMAIN lastIns)
        /\ \A id \in DOMAIN heap :
              /\ DOMAIN heap[id].nextLevelArray.slot \subseteq DOMAIN heap'[id].nextLevelArray.slot
              /\ heap[id].mapArray.alloc => heap'[id].mapArray.alloc

\* C23: only the root exists at construction; after any inserts and
\* invalidations the allocated nodes are exactly those on the walk paths of
\* the addresses inserted so far; an insert allocates only the missing nodes
\* of its own path, and an invalidation of a page inserted before allocates
\* no node and frees none.
C23_NodesAreInsertedPaths == []NodesAreInsertedPaths /\ [][NodesOnlyGrow]_vars

\* C23 witness: under <<4, 8, 8>> two pages that share all their nodes (VPN 0
\* and 1) and a third with a terminal node of its own (VPN 0x1000) were
\* inserted, and one was invalidated: the root, one second-level node and two
\* terminal nodes, and no other
C23_Witness ==
    /\ pc = "pt"
    /\ cfg = <<4, 8, 8>>
    /\ DOMAIN lastIns = {0, 1, 4096}
    /\ lastIns[1] = -1 /\ lastIns[0] = 0 /\ lastIns[4096] = 1
    /\ DOMAIN heap = {<<>>, <<0>>, <<0, 0>>, <<0, 16>>}

(***************************************************************************)
(* C24.                                                                    *)
(***************************************************************************)
\* the frame a resident record of l gives the page vpn, as a lookup result
ResidentLookup(l, vpn) ==
    LET hits == {i \in 1..Len(l) : l[i].fullVPN = vpn}
    IN  IF hits = {} THEN NullMapPtr
        ELSE [found |-> TRUE, frameNumber |-> l[CHOOSE i \in hits : TRUE].frameNumber]

\* C24: after every processed address a translation returns frame F exactly
\* when a resident record holds the address's VPN with frame F (and the trie
\* holds no valid mapping beyond the resident records); the hit or miss that
\* main took from the page-table lookup is the one the resident records
\* before the address define, and a miss always reaches the fault handling
\* proper: the page is never found resident after the lookup missed.
C24_TableAgreesWithRecords ==
    Running =>
        /\ \A va \in ProbeAddrs(rs.loaded) :
              searchMappedPfn(pt, heap, va) = ResidentLookup(rs.loaded, getFullVPN(pt, va))
        /\ ValidMappingCount = Len(rs.loaded)
        /\ N >= 1 =>
              /\ ev.hit <=> ResidentLookup(LoadedBefore, ev.fullVPN).found
              /\ ev.hit => ev.pfn = ResidentLookup(LoadedBefore, ev.fullVPN).frameNumber
              /\ ~ev.hit => ev.didFault

\* C24 witness: budget 2; a page that was resident and has been evicted is
\* accessed again: the lookup misses and the fault evicts another page
C24_Witness ==
    /\ pc = "run"
    /\ Len(rs.loaded) = 2
    /\ N = 4
    /\ trace[4] = trace[1]
    /\ ~ev.hit /\ ev.didEvict
    /\ ~ResidentLookup(snaps[3], trace[1]).found
    /\ ResidentLookup(snaps[1], trace[1]).found

(***************************************************************************)
(* C25.                                                                    *)
(***************************************************************************)
\* C25: after any number of processed addresses hits + misses = addresses
\* processed, evictions <= misses and misses = frames allocated + evictions;
\* the frames allocated are as many as the resident records and no more than
\* the budget; the summary reports these counters.
C25_CounterIdentities ==
    Running =>
        /\ ToNat(stats.addressesProcessed) = N
        /\ ToNat(stats.hits) + ToNat(stats.misses) = ToNat(stats.addressesProcessed)
        /\ ToNat(stats.evictions) <= ToNat(stats.misses)
        /\ ToNat(stats.misses) = rs.nextFreeFrame + ToNat(stats.evictions)
        /\ rs.nextFreeFrame = Len(rs.loaded)
        /\ Bounded => rs.nextFreeFrame <= ToNat(rs.maxFrames)
        /\ pc = "done" =>
              /\ summary.addresses = stats.addressesProcessed
              /\ summary.hits = stats.hits
              /\ summary.evictions = stats.evictions
              /\ summary.framesAllocated = rs.nextFreeFrame

\* C25 witness: budget 2 and four addresses: one hit, two allocating misses
\* and one evicting miss
C25_Witness ==
    /\ pc = "done"
    /\ rs.maxFrames = FromNat(2)
    /\ summary.addresses = FromNat(4)
    /\ summary.hits = FromNat(1)
    /\ stats.misses = FromNat(3)
    /\ summary.evictions = FromNat(1)
    /\ summary.framesAllocated = 2

(***************************************************************************)
(* C26.                                                                    *)
(***************************************************************************)
\* C26: after every processed address (the clock not having wrapped) the
\* last-access timestamps of the resident records are pairwise distinct and
\* none is later than the current clock value, so no two resident records
\* tie on both the age bitstring and the last-access timestamp.
C26_DistinctTimestamps ==
    Running =>
        /\ rs.currentTime = FromNat(N)
        /\ \A i \in 1..Len(rs.loaded) :
              /\ ~WordLess(rs.currentTime, rs.loaded[i].lastAccessTime)
              /\ \A j \in 1..Len(rs.loaded) :
                    i # j =>
                        /\ rs.loaded[i].lastAccessTime # rs.loaded[j].lastAccessTime
                        /\ <<rs.loaded[i].ageBits, rs.loaded[i].lastAccessTime>>
                              # <<rs.loaded[j].ageBits, rs.loaded[j].lastAccessTime>>

\* C26 witness: two resident records of equal age, told apart by their
\* timestamps, the later of which is the current clock value
C26_Witness ==
    /\ pc = "run"
    /\ Len(rs.loaded) = 2
    /\ rs.loaded[1].ageBits = rs.loaded[2].ageBits
    /\ WordLess(rs.loaded[2].lastAccessTime, rs.loaded[1].lastAccessTime)
    /\ rs.loaded[1].lastAccessTime = rs.currentTime
    /\ ev.didEvict
====
